---- MODULE Spec2Model ----
(***************************************************************************)
(* A model of the DHLab newsletter server (src/server.js).  The file holds *)
(* two variants of the same server: the SQLite variant (lines 1-360) and   *)
(* the Google Sheets variant (lines 362-708).  The variable `variant`      *)
(* selects which one runs; every action is translated from the handler of  *)
(* that variant.                                                           *)
(*                                                                         *)
(* Time is counted in ticks, TicksPerDay ticks to a day.  A date string    *)
(* "YYYY-MM-DD" is represented by its day number; new Date(string) turns   *)
(* it into the instant of that day's UTC midnight.  The server's local     *)
(* time is UTC + tz ticks.  A url is a sequence of characters so that      *)
(* trim() is computed, not assumed.                                        *)
(*                                                                         *)
(* Every await of the code is a point where other handlers may run, so a   *)
(* handler is one action per segment between awaits.  A call to the store  *)
(* (SQLite statement, Sheets request) takes effect at one instant and may  *)
(* fail.  The column created_at is written but never read by any handler   *)
(* modelled here and is left out of the rows.  A row, once written, keeps   *)
(* its id, url and event_date and its place in the store (rows are only    *)
(* appended), so a handler's copy of a row is held as the row's index.     *)
(* What a handler sends out (an HTTP response, a digest) is an operator of *)
(* the state it runs in and of its inputs; the actions apply the operators.*)
(***************************************************************************)
EXTENDS Integers, Sequences, FiniteSets, TLC

VARIABLES
    variant,        \* "sqlite" or "sheets": which server of the file runs
    tz,             \* the server's timezone offset, in ticks (local = UTC + tz)
    now,            \* the wall clock, in ticks
    rows,           \* the entry store: table `entries` / sheet `entries`, in row order
    nextId,         \* SQLite's AUTOINCREMENT counter
    lastEmailSent,  \* the send ledger: {} (null) or {t}
    cyc,            \* the evaluateAndSend calls in progress, one slot per trigger
    subs,           \* Sheets POST /submit requests between their check and their append
    dbq,            \* SQLite statements issued with db.run and not yet executed
    delivered       \* the rows some digest accepted by the email provider has covered

vars == <<variant, tz, now, rows, nextId, lastEmailSent, cyc, subs, dbq, delivered>>

----------------------------------------------------------------------------
(* Bounds of the model *)

TicksPerDay == 2        \* clock resolution
StartDay == 2           \* the day the clock starts on
MaxTicks == 1           \* single ticks the clock takes between two long leaps
MaxLeaps == 1           \* long leaps (of TwentyOneDays) the clock takes
MaxRows == 2            \* rows the store may hold
MaxInflight == 2        \* handlers (cycles, submissions) in progress at once
MaxQueue == 3           \* SQLite statements waiting to be executed

(* Program constants *)

SevenDays == 7          \* 7 * 24 * 60 * 60 * 1000 ms, in days
TwentyOneDays == 21     \* 21 * 24 * 60 * 60 * 1000 ms, in days
MinBatch == 7           \* entries.length >= 7

Variants == {"sqlite", "sheets"}
Cycles == {"cron", "test"}          \* cron.schedule and GET /test-send

\* a long leap of the clock: the staleness window and one tick
Leap == TwentyOneDays * TicksPerDay + 1
StartTick == StartDay * TicksPerDay
MaxNow == StartTick + MaxLeaps * Leap + MaxTicks

TzOffsets == {-(TicksPerDay \div 2), 0, TicksPerDay \div 2}

\* The request bodies a submitter may send: a field is {} when it is missing.
\* The dates lie around the calendar day the clock starts on.
Body(url, date) == [url |-> url, date |-> date]
Yesterday == StartDay - 1
Today == StartDay
FarDay == StartDay + TwentyOneDays + SevenDays + 1
Bodies ==
    { Body({}, {Today}), Body({<<" ">>}, {Today}), Body({<<"a">>}, {}),
      Body({<<"a">>}, {Yesterday}), Body({<<"a">>}, {Today}),
      Body({<<" ", "b", " ">>}, {FarDay}) }

----------------------------------------------------------------------------
(* Pure helpers *)

RECURSIVE TrimLeft(_)
TrimLeft(s) == IF s # <<>> /\ Head(s) = " " THEN TrimLeft(Tail(s)) ELSE s

RECURSIVE TrimRight(_)
TrimRight(s) ==
    IF s # <<>> /\ s[Len(s)] = " " THEN TrimRight(SubSeq(s, 1, Len(s) - 1)) ELSE s

\* String.prototype.trim
Trim(s) == TrimRight(TrimLeft(s))

\* new Date("YYYY-MM-DD"): the instant of that day's UTC midnight
ParseDate(d) == d * TicksPerDay

\* Date.prototype.setHours(0, 0, 0, 0): the instant of local midnight of t's local day
SetHoursZero(t) == ((t + tz) \div TicksPerDay) * TicksPerDay - tz

\* the server's local calendar day at instant t
LocalDay(t) == (t + tz) \div TicksPerDay

\* submittedDate < today, lines 294-300 and 637-643
IsPastDate(d) == SetHoursZero(ParseDate(d)) < SetHoursZero(now)

Range(s) == {s[i] : i \in 1..Len(s)}

----------------------------------------------------------------------------
\* A slot of cyc: pc is where its evaluateAndSend call stands, or how its last
\* call ended (what it logged, lines 265-270 and 608-613); entries is the backlog it
\* read (row indices, in digest order); read is the column E that markEntriesEmailed
\* read.
Slot(pc) == [pc |-> pc, entries |-> <<>>, read |-> <<>>]
Idle == Slot("idle")
Returned == {"idle", "empty", "skipped", "sent", "readFailed", "sendFailed", "markFailed"}

\* The state after the server has started on an empty store, for a server whose
\* local time is offset from UTC by zone.
InitIn(zone) ==
    /\ variant \in Variants
    /\ tz = zone
    /\ now = StartTick
    /\ rows = <<>>
    /\ nextId = 1
    /\ lastEmailSent = {}
    /\ cyc = [c \in Cycles |-> Idle]
    /\ subs = <<>>
    /\ dbq = {}
    /\ delivered = {}

\* a server in UTC
Init == InitIn(0)

\* a server in any timezone
InitAnyZone == \E zone \in TzOffsets : InitIn(zone)

\* handlers in progress
Inflight == Len(subs) + Cardinality({c \in Cycles : cyc[c].pc \notin Returned})

\* time passes: single ticks, and leaps of the staleness window
AdvanceClock ==
    /\ \/ /\ (now - StartTick) % Leap < MaxTicks
          /\ now' = now + 1
       \/ /\ now + Leap <= MaxNow
          /\ now' = now + Leap
    /\ UNCHANGED <<variant, tz, rows, nextId, lastEmailSent, cyc, subs, dbq, delivered>>

----------------------------------------------------------------------------
(* POST /submit *)

Reply(status, error, id) == [status |-> status, error |-> error, id |-> id]
NoReply == Reply(0, "", {})

\* req.body.url?.trim(): {} when the field is missing
TrimmedUrl(body) == {Trim(x) : x \in body.url}

\* !url || !date, lines 289 and 632
MissingField(body) == TrimmedUrl(body) \subseteq {<<>>} \/ body.date = {}

UrlOf(body) == CHOOSE x \in TrimmedUrl(body) : TRUE
DateOf(body) == CHOOSE x \in body.date : TRUE

\* a row inserted with the flag already set
NewRowSent(id, url, date) == [id |-> id, url |-> url, event_date |-> date, emailed |-> 1]

NewRow(id, url, date) == [id |-> id, url |-> url, event_date |-> date, emailed |-> 0]

\* urls.includes(url), line 658; the UNIQUE constraint of line 34
UrlExists(url) == \E i \in 1..Len(rows) : rows[i].url = url

\* The validation both variants share (lines 286-304, 629-647): the 400 reply, or
\* NoReply when the request passes.
Validate(body) ==
    IF MissingField(body) THEN Reply(400, "Missing url or date", {})
    ELSE IF IsPastDate(DateOf(body)) THEN Reply(400, "Date cannot be in the past", {})
    ELSE NoReply

\* SQLite variant, lines 285-322: the response to `body`.  The INSERT is one
\* statement: it fails (fault: an error without "UNIQUE" in its message), hits the
\* UNIQUE constraint on url, or adds the row under the next AUTOINCREMENT id.
SubmitReply(body, fault) ==
    IF Validate(body) # NoReply THEN Validate(body)
    ELSE IF fault THEN Reply(500, "DB error", {})
    ELSE IF UrlExists(UrlOf(body)) THEN Reply(409, "URL already submitted", {})
    ELSE Reply(200, "", {nextId})

SubmitSqlite(body, fault) ==
    /\ variant = "sqlite"
    /\ IF SubmitReply(body, fault).status = 200
       THEN /\ Len(rows) < MaxRows
            /\ rows' = Append(rows, NewRow(nextId, UrlOf(body), DateOf(body)))
            /\ nextId' = nextId + 1
       ELSE UNCHANGED <<rows, nextId>>
    /\ UNCHANGED <<variant, tz, now, lastEmailSent, cyc, subs, dbq, delivered>>

\* Sheets variant, lines 628-660: the response the handler sends before the append,
\* or NoReply when it goes on to append.  fault: values.get throws.
CheckReply(body, fault) ==
    IF Validate(body) # NoReply THEN Validate(body)
    ELSE IF fault THEN Reply(500, "Sheets error", {})
    ELSE IF UrlExists(UrlOf(body)) THEN Reply(409, "URL already submitted", {})
    ELSE NoReply

\* A request that passes the check computes its id (Date.now(), line 662) and
\* issues the append.
SubmitCheck(body, fault) ==
    /\ variant = "sheets"
    /\ Inflight < MaxInflight
    /\ IF CheckReply(body, fault) = NoReply
       THEN subs' = Append(subs, NewRow(now, UrlOf(body), DateOf(body)))
       ELSE UNCHANGED subs
    /\ UNCHANGED <<variant, tz, now, rows, nextId, lastEmailSent, cyc, dbq, delivered>>

\* Sheets variant, lines 664-677: the response once the append of request k has
\* taken effect or thrown (fault)
AppendReply(k, fault) ==
    IF fault THEN Reply(500, "Sheets error", {}) ELSE Reply(200, "", {subs[k].id})

SubmitAppend(k, fault) ==
    /\ variant = "sheets"
    /\ k \in 1..Len(subs)
    /\ subs' = SubSeq(subs, 1, k - 1) \o SubSeq(subs, k + 1, Len(subs))
    /\ IF AppendReply(k, fault).status = 200
       THEN /\ Len(rows) < MaxRows
            /\ rows' = Append(rows, subs[k])
       ELSE UNCHANGED rows
    /\ UNCHANGED <<variant, tz, now, nextId, lastEmailSent, cyc, dbq, delivered>>

----------------------------------------------------------------------------
(* The store helpers of the evaluate-and-send cycle *)

\* the place of row i among seq, which is sorted by event_date: after every row
\* whose date is not later (the sort is stable, ORDER BY takes rows in rowid order)
RECURSIVE InsertByDate(_, _)
InsertByDate(seq, i) ==
    IF seq = <<>> THEN <<i>>
    ELSE IF rows[Head(seq)].event_date <= rows[i].event_date
         THEN <<Head(seq)>> \o InsertByDate(Tail(seq), i)
         ELSE <<i>> \o seq

\* .sort((a, b) => new Date(a.event_date) - new Date(b.event_date)), line 438;
\* ORDER BY event_date ASC, line 78
RECURSIVE SortByDate(_)
SortByDate(idx) ==
    IF idx = <<>> THEN <<>>
    ELSE InsertByDate(SortByDate(SubSeq(idx, 1, Len(idx) - 1)), idx[Len(idx)])

IsUnemailed(i) == rows[i].emailed = 0

\* getUnemailedEntries, lines 75-85 and 421-439: the rows with emailed = 0, by date
UnemailedEntries == SortByDate(SelectSeq([i \in 1..Len(rows) |-> i], IsUnemailed))

\* entries.map((e) => e.id)
IdsOf(entries) == {rows[i].id : i \in Range(entries)}

\* the rows an UPDATE ... WHERE id IN (ids) / ids.includes(r[0]) selects
Marked(flags, ids) ==
    [i \in 1..Len(rows) |->
        IF i <= Len(flags)
        THEN [rows[i] EXCEPT !.emailed = IF rows[i].id \in ids THEN 1 ELSE flags[i]]
        ELSE rows[i]]

EmailedFlags == [i \in 1..Len(rows) |-> rows[i].emailed]

----------------------------------------------------------------------------
(* The decision rule, lines 244-261 and 588-604 *)

conditionA(entries, t) ==
    \E i \in Range(entries) : ParseDate(rows[i].event_date) <= t + SevenDays * TicksPerDay

conditionB(entries) == Len(entries) >= MinBatch

\* conditionC without the staleness test of lines 258 / 602
conditionCAbsentOnly(lastSent, t) == lastSent = {}

conditionC(lastSent, t) ==
    lastSent = {} \/ \E l \in lastSent : t - l > TwentyOneDays * TicksPerDay

ShouldSend(entries, lastSent, t) ==
    conditionA(entries, t) \/ conditionB(entries) \/ conditionC(lastSent, t)

----------------------------------------------------------------------------
(* evaluateAndSend, lines 239-272 and 583-615 *)

SetCyc(c, pc, entries, read) ==
    cyc' = [cyc EXCEPT ![c] = [pc |-> pc, entries |-> entries, read |-> read]]

\* ReadBacklog without the return of lines 242 / 586
ReadBacklogNoGuard(c, fault) ==
    /\ cyc[c].pc \in Returned
    /\ Inflight < MaxInflight
    /\ IF fault THEN cyc' = [cyc EXCEPT ![c] = Slot("readFailed")]
       ELSE SetCyc(c, "evaluate", UnemailedEntries, <<>>)
    /\ UNCHANGED <<variant, tz, now, rows, nextId, lastEmailSent, subs, dbq, delivered>>

\* cron.schedule / GET /test-send call evaluateAndSend; getUnemailedEntries reads
\* the store.  A failed read (fault) throws into the catch; an empty backlog
\* returns.
ReadBacklog(c, fault) ==
    /\ cyc[c].pc \in Returned
    /\ Inflight < MaxInflight
    /\ IF fault THEN cyc' = [cyc EXCEPT ![c] = Slot("readFailed")]
       ELSE IF UnemailedEntries = <<>> THEN cyc' = [cyc EXCEPT ![c] = Slot("empty")]
       ELSE SetCyc(c, "evaluate", UnemailedEntries, <<>>)
    /\ UNCHANGED <<variant, tz, now, rows, nextId, lastEmailSent, subs, dbq, delivered>>

\* getLastEmailSent: the Sheets variant returns the in-memory value (lines 400-402);
\* the SQLite variant reads table meta and resolves null when the read fails or
\* finds no row (lines 54-64).  The ISO string written by updateLastEmailSent
\* parses back to the same instant.
LedgerRead(fault) ==
    IF variant = "sqlite" /\ fault THEN {} ELSE lastEmailSent

\* now = new Date(), the three conditions and the branch of lines 261 / 604
Evaluate(c, fault) ==
    /\ cyc[c].pc = "evaluate"
    /\ variant = "sheets" => ~fault
    /\ IF ShouldSend(cyc[c].entries, LedgerRead(fault), now)
       THEN SetCyc(c, "send", cyc[c].entries, <<>>)
       ELSE cyc' = [cyc EXCEPT ![c] = Slot("skipped")]
    /\ UNCHANGED <<variant, tz, now, rows, nextId, lastEmailSent, subs, dbq, delivered>>

PreviewOutcomes == {"ok", "fail"}

\* one item of the digest, lines 104-122 and 471-485: preview.title || e.url,
\* preview.description || "", and the fallback of the catch
Enriched(i, outcome) ==
    [row |-> i,
     title |-> IF outcome = "ok" THEN <<"T">> ELSE rows[i].url,
     description |-> IF outcome = "fail" THEN <<>> ELSE <<"D">>]

\* how the preview fetches of `entries` may end, one outcome per entry
Fetches(entries) == [Range(entries) -> PreviewOutcomes]

\* a digest built from the entries whose preview was fetched, the others dropped
DigestFetchedOnly(entries, f) ==
    LET fetched == SelectSeq(entries, LAMBDA i : f[i] = "ok")
    IN  [k \in 1..Len(fetched) |-> Enriched(fetched[k], "ok")]

\* the entries a digest covers
Covered(digest) == {digest[k].row : k \in 1..Len(digest)}

\* the digest sendNewsletter builds from `entries` when the previews end as f says:
\* Promise.all keeps the order of `entries`
Digest(entries, f) == [k \in 1..Len(entries) |-> Enriched(entries[k], f[entries[k]])]

\* Dispatch with the provider's error not thrown (lines 221-224 / 575 left out)
DispatchUnconfirmed(c, fault) ==
    /\ cyc[c].pc = "send"
    /\ delivered' = IF fault THEN delivered ELSE delivered \cup Range(cyc[c].entries)
    /\ SetCyc(c, "mark", cyc[c].entries, <<>>)
    /\ UNCHANGED <<variant, tz, now, rows, nextId, lastEmailSent, subs, dbq>>

\* sendNewsletter, lines 99-232 and 467-578: nothing for an empty list; else the
\* previews, then the call of the email provider, which accepts the digest or
\* fails (fault: error returned or thrown, into the catch of evaluateAndSend)
Dispatch(c, fault) ==
    /\ cyc[c].pc = "send"
    /\ IF cyc[c].entries = <<>>
       THEN /\ SetCyc(c, "mark", cyc[c].entries, <<>>)
            /\ UNCHANGED delivered
       ELSE IF fault
       THEN /\ cyc' = [cyc EXCEPT ![c] = Slot("sendFailed")]
            /\ UNCHANGED delivered
       ELSE /\ \E f \in Fetches(cyc[c].entries) :
                  delivered' = delivered \cup Covered(Digest(cyc[c].entries, f))
            /\ SetCyc(c, "mark", cyc[c].entries, <<>>)
    /\ UNCHANGED <<variant, tz, now, rows, nextId, lastEmailSent, subs, dbq>>

Statement(op, arg) == [op |-> op, arg |-> arg]

\* SQLite variant, lines 263-264 with 66-73 and 87-93: both db.run calls are issued
\* and evaluateAndSend returns without waiting for them
QueueWrites(c) ==
    /\ variant = "sqlite"
    /\ cyc[c].pc = "mark"
    /\ Cardinality(dbq) + 2 <= MaxQueue
    /\ dbq' = dbq \cup {Statement("mark", IdsOf(cyc[c].entries)), Statement("ledger", {now})}
    /\ cyc' = [cyc EXCEPT ![c] = Slot("sent")]
    /\ UNCHANGED <<variant, tz, now, rows, nextId, lastEmailSent, subs, delivered>>

\* SQLite executes a queued statement.  The database is not in serialize mode, so
\* the statements run in any order; db.run was given no callback, so an error is
\* dropped (fault).
DbExec(st, fault) ==
    /\ st \in dbq
    /\ dbq' = dbq \ {st}
    /\ IF fault THEN UNCHANGED <<rows, lastEmailSent>>
       ELSE IF st.op = "mark"
       THEN /\ rows' = Marked(EmailedFlags, st.arg)
            /\ UNCHANGED lastEmailSent
       ELSE /\ lastEmailSent' = st.arg
            /\ UNCHANGED rows
    /\ UNCHANGED <<variant, tz, now, nextId, cyc, subs, delivered>>

\* Sheets variant, markEntriesEmailed lines 442-454: all rows are read, or the
\* read throws (fault)
MarkRead(c, fault) ==
    /\ variant = "sheets"
    /\ cyc[c].pc = "mark"
    /\ IF fault THEN cyc' = [cyc EXCEPT ![c] = Slot("markFailed")]
       ELSE SetCyc(c, "write", cyc[c].entries, EmailedFlags)
    /\ UNCHANGED <<variant, tz, now, rows, nextId, lastEmailSent, subs, dbq, delivered>>

\* Sheets variant, lines 456-461 and 607: the rows read are written back from A2
\* with column E set for the ids, then updateLastEmailSent (lines 404-406); or
\* the write throws (fault)
MarkWrite(c, fault) ==
    /\ variant = "sheets"
    /\ cyc[c].pc = "write"
    /\ IF fault
       THEN /\ UNCHANGED <<rows, lastEmailSent>>
            /\ cyc' = [cyc EXCEPT ![c] = Slot("markFailed")]
       ELSE /\ rows' = Marked(cyc[c].read, IdsOf(cyc[c].entries))
            /\ lastEmailSent' = {now}
            /\ cyc' = [cyc EXCEPT ![c] = Slot("sent")]
    /\ UNCHANGED <<variant, tz, now, nextId, subs, dbq, delivered>>

\* The process is stopped and started again: the handlers in progress and the
\* statements not yet executed are lost, and so is the Sheets variant's in-memory
\* lastEmailSent (line 398); the store persists.
Restart ==
    /\ cyc' = [c \in Cycles |-> Idle]
    /\ subs' = <<>>
    /\ dbq' = {}
    /\ lastEmailSent' = IF variant = "sheets" THEN {} ELSE lastEmailSent
    /\ UNCHANGED <<variant, tz, now, rows, nextId, delivered>>

\* GET /test-send, lines 332-335 and 702-705: what the handler has sent; it
\* answers when its evaluateAndSend call has returned
TestSendReply ==
    IF cyc["test"].pc \in Returned \ {"idle"}
    THEN Reply(200, "Triggered email check", {})
    ELSE NoReply

----------------------------------------------------------------------------
Next ==
    \/ AdvanceClock
    \/ \E body \in Bodies, fault \in BOOLEAN : SubmitSqlite(body, fault)
    \/ \E body \in Bodies, fault \in BOOLEAN : SubmitCheck(body, fault)
    \/ \E k \in 1..MaxInflight, fault \in BOOLEAN : SubmitAppend(k, fault)
    \/ \E c \in Cycles, fault \in BOOLEAN : ReadBacklog(c, fault)
    \/ \E c \in Cycles, fault \in BOOLEAN : Evaluate(c, fault)
    \/ \E c \in Cycles, fault \in BOOLEAN : Dispatch(c, fault)
    \/ \E c \in Cycles : QueueWrites(c)
    \/ \E st \in dbq, fault \in BOOLEAN : DbExec(st, fault)
    \/ \E c \in Cycles, fault \in BOOLEAN : MarkRead(c, fault)
    \/ \E c \in Cycles, fault \in BOOLEAN : MarkWrite(c, fault)
    \/ Restart

\* a step of slot c's evaluateAndSend call (a restart leaves every slot "idle")
StepOf(c) == cyc'[c] # cyc[c] /\ cyc'[c].pc # "idle"

\* a step that neither writes to the store or the ledger nor issues a write
StoreUnchanged == rows' = rows /\ lastEmailSent' = lastEmailSent /\ dbq' = dbq

\* The whole server, in UTC.
Spec == Init /\ [][Next]_vars

\* The submission path alone, in every timezone.
NextSubmit ==
    \/ AdvanceClock
    \/ \E body \in Bodies, fault \in BOOLEAN : SubmitSqlite(body, fault)
    \/ \E body \in Bodies, fault \in BOOLEAN : SubmitCheck(body, fault)
    \/ \E k \in 1..MaxInflight, fault \in BOOLEAN : SubmitAppend(k, fault)

SpecSubmit == InitAnyZone /\ [][NextSubmit]_vars

\* The server with the scheduled cycle as the only caller of evaluateAndSend.
NextLive ==
    \/ AdvanceClock
    \/ \E body \in Bodies, fault \in BOOLEAN : SubmitSqlite(body, fault)
    \/ \E body \in Bodies, fault \in BOOLEAN : SubmitCheck(body, fault)
    \/ \E k \in 1..MaxInflight, fault \in BOOLEAN : SubmitAppend(k, fault)
    \/ \E fault \in BOOLEAN : ReadBacklog("cron", fault)
    \/ \E fault \in BOOLEAN : Evaluate("cron", fault)
    \/ \E fault \in BOOLEAN : Dispatch("cron", fault)
    \/ QueueWrites("cron")
    \/ \E st \in dbq, fault \in BOOLEAN : DbExec(st, fault)
    \/ \E fault \in BOOLEAN : MarkRead("cron", fault)
    \/ \E fault \in BOOLEAN : MarkWrite("cron", fault)
    \/ Restart

\* What the claims about progress assume.  Time passes.  Every call a handler
\* awaits returns or throws, so no handler stays where it is for ever, and SQLite
\* executes every statement it was given.  The scheduled cycle keeps being started
\* and its reads, its dispatch and its writes succeed again and again.
Fairness ==
    /\ WF_vars(AdvanceClock)
    /\ WF_vars(\E k \in 1..MaxInflight, fault \in BOOLEAN : SubmitAppend(k, fault))
    /\ WF_vars(\E st \in dbq, fault \in BOOLEAN : DbExec(st, fault))
    /\ SF_vars(ReadBacklog("cron", FALSE))
    /\ SF_vars(\E fault \in BOOLEAN : Evaluate("cron", fault))
    /\ SF_vars(Dispatch("cron", FALSE))
    /\ SF_vars(QueueWrites("cron"))
    /\ SF_vars(\E st \in dbq : st.op = "mark" /\ DbExec(st, FALSE))
    /\ SF_vars(MarkRead("cron", FALSE))
    /\ SF_vars(MarkWrite("cron", FALSE))

SpecLive == Init /\ [][NextLive]_vars /\ Fairness

\* Submissions of different urls for the same day, and the scheduled cycle up to
\* its dispatch: the server as far as the order of a digest goes.
SameDayBodies == {Body({<<"a">>}, {Today}), Body({<<"b">>}, {Today})}

NextOrder ==
    \/ AdvanceClock
    \/ \E body \in SameDayBodies : SubmitSqlite(body, FALSE)
    \/ \E body \in SameDayBodies : SubmitCheck(body, FALSE)
    \/ \E k \in 1..MaxInflight : SubmitAppend(k, FALSE)
    \/ \E fault \in BOOLEAN : ReadBacklog("cron", fault)
    \/ \E fault \in BOOLEAN : Evaluate("cron", fault)
    \/ \E fault \in BOOLEAN : Dispatch("cron", fault)

SpecOrder == Init /\ [][NextOrder]_vars
----------------------------------------------------------------------------
(* The claims *)

\* C1: a cycle whose dispatch fails changes no sent flag and not lastSentAt, and
\* issues no write of them: a cycle reaches its mark-sent and ledger-update steps
\* only from a dispatch the provider accepted, which covered the cycle's entries,
\* and no other step of a cycle writes to the store or the ledger.
C1_FailedDispatchLeavesState ==
    [][\A c \in Cycles :
          /\ (cyc[c].pc = "send" /\ cyc'[c].pc = "sendFailed")
                => (StoreUnchanged /\ delivered' = delivered)
          /\ (StepOf(c) /\ cyc'[c].pc = "mark")
                => (cyc[c].pc = "send" /\ Range(cyc[c].entries) \subseteq delivered')
          /\ (StepOf(c) /\ cyc'[c].pc = "write") => cyc[c].pc = "mark"
          /\ (StepOf(c) /\ ~StoreUnchanged)
                => cyc[c].pc \in {"mark", "write"}]_vars

\* a dispatch has failed in a cycle that had entries to send, and they are all
\* still pending with the ledger untouched
C1_Witness ==
    \E c \in Cycles :
        /\ cyc[c].pc = "sendFailed"
        /\ UnemailedEntries # <<>>
        /\ \A i \in 1..Len(rows) : rows[i].emailed = 0
        /\ lastEmailSent = {}
        /\ dbq = {}

\* C2: a cycle that has read a non-empty backlog attempts a dispatch exactly when
\* some pending entry has eventDate <= now + 7 days, or at least 7 entries are
\* pending, or lastSentAt is absent or more than 21 days before now.
C2_DispatchIffConditions ==
    [][\A c \in Cycles :
          (StepOf(c) /\ cyc[c].pc = "evaluate") =>
              (cyc'[c].pc = "send" <=>
                  \/ \E i \in Range(cyc[c].entries) :
                        rows[i].event_date * TicksPerDay <= now + SevenDays * TicksPerDay
                  \/ Len(cyc[c].entries) >= MinBatch
                  \/ lastEmailSent = {}
                  \/ \E l \in lastEmailSent : now - l > TwentyOneDays * TicksPerDay)]_vars

\* C3: a cycle that finds the backlog empty ends there: it does not go on to the
\* evaluation or the dispatch, and it leaves every entry, lastSentAt and the
\* provider's record as they are, whatever lastSentAt is.
C3_EmptyBacklogEndsCycle ==
    [][\A c \in Cycles :
          /\ (StepOf(c) /\ cyc[c].pc \in Returned /\ UnemailedEntries = <<>>)
                => /\ cyc'[c].pc \in {"empty", "readFailed"}
                   /\ StoreUnchanged /\ delivered' = delivered
          /\ (StepOf(c) /\ cyc'[c].pc \in {"evaluate", "send", "mark", "write"})
                => cyc'[c].entries # <<>>]_vars

\* a cycle has ended on an empty backlog while the last dispatch was more than 21
\* days ago
C3_Witness ==
    \E c \in Cycles :
        /\ cyc[c].pc = "empty"
        /\ UnemailedEntries = <<>>
        /\ rows # <<>>
        /\ \E l \in lastEmailSent : now - l > TwentyOneDays * TicksPerDay

\* C4: no entry is in more than one digest the provider accepted.
C4_NoEntryInTwoDigests ==
    [][\A c \in Cycles :
          (StepOf(c) /\ cyc'[c].pc = "mark")
              => Range(cyc[c].entries) \cap delivered = {}]_vars

\* C5: an entry whose sent flag is true keeps it.
C5_SentNeverReverts ==
    [][\A i \in 1..Len(rows) : rows[i].emailed = 1 => rows'[i].emailed = 1]_vars

\* C6: no two entries of the store have the same url.
C6_UrlUnique ==
    \A i, j \in 1..Len(rows) : i # j => rows[i].url # rows[j].url

\* C7: under the assumptions of Fairness every entry of the store is eventually
\* marked sent; and a cycle that evaluates its non-empty backlog while lastSentAt
\* is absent or more than 21 days old goes on to send, whatever the event dates
\* and however few the entries.
C7_EveryEntryEventuallySent ==
    /\ \A i \in 1..MaxRows :
          (i <= Len(rows) /\ rows[i].emailed = 0)
              ~> (i <= Len(rows) /\ rows[i].emailed = 1)
    /\ [][\A c \in Cycles :
             (/\ StepOf(c) /\ cyc[c].pc = "evaluate"
              /\ \/ lastEmailSent = {}
                 \/ \E l \in lastEmailSent : now - l > TwentyOneDays * TicksPerDay)
                 => cyc'[c].pc = "send"]_vars
C7_Witness ==
    \E c \in Cycles :
        /\ cyc[c].pc = "send"
        /\ Len(cyc[c].entries) < MinBatch
        /\ \A i \in Range(cyc[c].entries) :
              rows[i].event_date * TicksPerDay > now + SevenDays * TicksPerDay
        /\ \E l \in lastEmailSent : now - l > TwentyOneDays * TicksPerDay
        /\ \E i \in 1..Len(rows) : rows[i].emailed = 1

\* C8: POST /submit answers 400 when url or date is missing or url is blank; else
\* 400 "Date cannot be in the past" when the date is before today's calendar
\* date; else 409 "URL already submitted" when the url is in the store; else it
\* appends the entry with sent = false and answers 200 with an id no entry has;
\* a store failure gives 500.
C8_SubmitClassified ==
    /\ \A body \in Bodies :
          LET r == IF variant = "sqlite" THEN SubmitReply(body, FALSE)
                   ELSE CheckReply(body, FALSE)
              f == IF variant = "sqlite" THEN SubmitReply(body, TRUE)
                   ELSE CheckReply(body, TRUE)
              missing == \/ body.url = {}
                         \/ \A x \in body.url : Trim(x) = <<>>
                         \/ body.date = {}
              past == ~missing /\ \E d \in body.date : d < LocalDay(now)
              dup == ~missing /\ ~past /\ UrlExists(UrlOf(body))
          IN  /\ missing => (r.status = 400 /\ f.status = 400)
              /\ past => (r = Reply(400, "Date cannot be in the past", {}) /\ f = r)
              /\ dup => r = Reply(409, "URL already submitted", {})
              /\ (~missing /\ ~past) => f.status = 500
              /\ (~missing /\ ~past /\ ~dup) =>
                    IF variant = "sqlite"
                    THEN /\ r.status = 200
                         /\ \A i \in 1..Len(rows) : rows[i].id \notin r.id
                    ELSE r = NoReply
    /\ \A k \in 1..Len(subs) :
          /\ AppendReply(k, TRUE).status = 500
          /\ AppendReply(k, FALSE) = Reply(200, "", {subs[k].id})
          /\ subs[k].emailed = 0
          /\ ~UrlExists(subs[k].url)
          /\ \A i \in 1..Len(rows) : rows[i].id # subs[k].id

\* C9: the past-date check rejects a date exactly when it is before the server's
\* calendar date: today's date passes and yesterday's is rejected, at every time
\* of day and in every timezone.
C9_PastDateIsCalendarPast ==
    \A d \in (LocalDay(now) - 1)..(LocalDay(now) + 1) :
        IsPastDate(d) <=> d < LocalDay(now)

\* C11: however the preview fetches of a cycle about to send end, the digest has
\* one item per entry of the backlog read, in the same place, a failed entry's
\* item has its url as title and an empty description, and the dispatch goes
\* ahead: when the provider accepts, exactly those entries are delivered.
C11_PreviewFailuresKeepDigest ==
    [][\A c \in Cycles :
          cyc[c].pc = "send" =>
             /\ \A f \in Fetches(cyc[c].entries) :
                   LET d == Digest(cyc[c].entries, f)
                   IN  /\ Len(d) = Len(cyc[c].entries)
                       /\ \A k \in 1..Len(d) :
                             /\ d[k].row = cyc[c].entries[k]
                             /\ f[d[k].row] = "fail" =>
                                   /\ d[k].title = rows[d[k].row].url
                                   /\ d[k].description = <<>>
             /\ (StepOf(c) /\ cyc'[c].pc = "mark")
                   => delivered' = delivered \cup Range(cyc[c].entries)
             /\ StepOf(c) => cyc'[c].pc \in {"mark", "sendFailed"}]_vars
C11_Witness ==
    \E c \in Cycles :
        /\ cyc[c].pc = "send"
        /\ Len(cyc[c].entries) = MaxRows
        /\ \E f \in Fetches(cyc[c].entries) :
              /\ \E i, j \in Range(cyc[c].entries) : f[i] = "fail" /\ f[j] = "ok"
              /\ Len(Digest(cyc[c].entries, f)) = MaxRows

\* C10: lastSentAt starts absent, changes only to a time of a cycle whose dispatch
\* succeeded, and once set is never absent again and never earlier.
C10_LedgerNeverRolledBack ==
    [][/\ lastEmailSent # {} =>
             /\ lastEmailSent' # {}
             /\ \A l \in lastEmailSent, m \in lastEmailSent' : l <= m
       /\ lastEmailSent' # lastEmailSent =>
             /\ delivered # {}
             /\ \A m \in lastEmailSent' : m <= now]_vars

\* C12: a cycle's backlog is every entry pending when it was read, and the digest
\* it dispatches lists those entries by ascending eventDate, entries of the same
\* date by ascending id, however the preview fetches end.
C12_DigestOrdered ==
    [][\A c \in Cycles :
          /\ (StepOf(c) /\ cyc'[c].pc = "evaluate")
                => Range(cyc'[c].entries) = {i \in 1..Len(rows) : rows[i].emailed = 0}
          /\ (StepOf(c) /\ cyc[c].pc = "send" /\ cyc'[c].pc = "mark")
                => \A f \in Fetches(cyc[c].entries) :
                      LET d == Digest(cyc[c].entries, f)
                      IN  /\ Covered(d) = Range(cyc[c].entries)
                          /\ \A k \in 1..(Len(d) - 1) :
                                LET x == rows[d[k].row]
                                    y == rows[d[k + 1].row]
                                IN  \/ x.event_date < y.event_date
                                    \/ x.event_date = y.event_date /\ x.id <= y.id]_vars

\* C13: a store error in the scheduled cycle ends it with nothing done: a failed
\* backlog read or ledger read is not followed by a dispatch and changes nothing,
\* and a cycle whose marking or ledger write fails has dispatched no email.
C13_PersistenceErrorAborts ==
    [][/\ ReadBacklog("cron", TRUE)
             => /\ cyc'["cron"].pc = "readFailed"
                /\ StoreUnchanged /\ delivered' = delivered
       /\ Evaluate("cron", TRUE)
             => /\ cyc'["cron"].pc \notin {"send", "mark", "write", "sent"}
                /\ StoreUnchanged /\ delivered' = delivered
       /\ (MarkRead("cron", TRUE) \/ MarkWrite("cron", TRUE))
             => /\ Range(cyc["cron"].entries) \cap delivered = {}
                /\ StoreUnchanged
       /\ \A st \in dbq :
             DbExec(st, TRUE)
                => /\ rows' = rows /\ lastEmailSent' = lastEmailSent
                   /\ st.op = "mark"
                         => \A i \in 1..Len(rows) : rows[i].id \in st.arg => i \notin delivered]_vars

\* C14: GET /test-send answers 200 however its cycle ends, and when the cycle has
\* sent, the answer comes after the entries sent are marked and lastSentAt is set.
C14_TestSendSynchronous ==
    [][(StepOf("test") /\ cyc'["test"].pc \in Returned) =>
          /\ TestSendReply'.status = 200
          /\ cyc'["test"].pc = "sent" =>
                /\ \A i \in Range(cyc["test"].entries) : rows'[i].emailed = 1
                /\ lastEmailSent' = {now}]_vars

\* C15: a sent flag goes from false to true only for an entry some accepted digest
\* has covered; a cycle's step changes flags only in its marking step, after its
\* dispatch, and only for entries of the backlog it sent.
C15_MarkedOnlyByDispatch ==
    [][/\ \A i \in 1..Len(rows) :
             (rows[i].emailed = 0 /\ rows'[i].emailed = 1) => i \in delivered
       /\ \A c \in Cycles :
             (StepOf(c) /\ rows' # rows) =>
                /\ cyc[c].pc = "write"
                /\ \A i \in 1..Len(rows) :
                      (rows[i].emailed = 0 /\ rows'[i].emailed = 1)
                          => i \in Range(cyc[c].entries)]_vars

\* C16: a cycle that has dispatched and then returns leaves every entry of its
\* digest with sent = true and lastSentAt at the time of the cycle.
C16_SentCycleUpdatesState ==
    [][\A c \in Cycles :
          (StepOf(c) /\ cyc[c].pc \in {"mark", "write"} /\ cyc'[c].pc \in Returned) =>
             /\ \A i \in Range(cyc[c].entries) : rows'[i].emailed = 1
             /\ lastEmailSent' = {now}]_vars

\* C17: no step of POST /submit changes lastSentAt or an existing row; a request
\* answered 200 adds one row, with sent = false, at the end of the store, and a
\* request answered 400, 409 or 500 changes neither the store nor the ledger.
\* (A step of POST /submit leaves cyc, dbq and now alone.)
C17_SubmitFrame ==
    [][LET Kept == lastEmailSent' = lastEmailSent /\ rows' = rows
           Added == /\ lastEmailSent' = lastEmailSent
                    /\ Len(rows') = Len(rows) + 1
                    /\ SubSeq(rows', 1, Len(rows)) = rows
                    /\ rows'[Len(rows')].emailed = 0
       IN  (vars' # vars /\ cyc' = cyc /\ dbq' = dbq /\ now' = now) =>
              /\ \A body \in Bodies, fault \in BOOLEAN :
                    /\ SubmitSqlite(body, fault) =>
                          IF SubmitReply(body, fault).status = 200 THEN Added ELSE Kept
                    /\ SubmitCheck(body, fault) => Kept
              /\ \A k \in 1..Len(subs), fault \in BOOLEAN :
                    SubmitAppend(k, fault) =>
                       IF AppendReply(k, fault).status = 200 THEN Added ELSE Kept]_vars
C17_Witness ==
    /\ Len(rows) = 2
    /\ rows[1].emailed = 1
    /\ rows[2].emailed = 0
    /\ variant = "sheets"
    /\ \E l \in lastEmailSent : rows[2].id > l

\* C18: a pending entry that is not in the backlog a running cycle has read is
\* left as it is by every step of that cycle: not delivered, not marked, not
\* removed; and the next backlog read takes it.
C18_EntryAcceptedMidCycle ==
    [][\A c \in Cycles :
          /\ (StepOf(c) /\ cyc[c].pc \notin Returned) =>
                /\ Len(rows') >= Len(rows)
                /\ \A i \in 1..Len(rows) :
                      (rows[i].emailed = 0 /\ i \notin Range(cyc[c].entries)) =>
                         /\ rows'[i] = rows[i]
                         /\ i \notin delivered => i \notin delivered'
          /\ (StepOf(c) /\ cyc'[c].pc = "evaluate") =>
                \A i \in 1..Len(rows) :
                   rows[i].emailed = 0 => i \in Range(cyc'[c].entries)]_vars
====
